---- MODULE Spec2Model ----
(***************************************************************************)
(* flash-cache: an in-memory key/value cache whose entries expire.  The    *)
(* Store (class flashCache, src/src/flash-cache.js) keeps the entries and  *)
(* registers one expiry per entry with the Expirer, which scans its index  *)
(* on a fixed interval and fires the callbacks that are due.               *)
(***************************************************************************)
EXTENDS Integers, Sequences, FiniteSets, TLC

\* ------------------------------------------------------------------ bounds
MaxTime == 5          \* the clock is followed up to this time
MaxPuts == 2          \* number of successful put calls followed
SmallInterval == 2    \* the expiryCheckInterval a caller configures

\* --------------------------------------------------------------- constants
\* JavaScript's null, as the value of expiryAt of an entry that never expires
Null == -1
\* an argument left out of a call (JavaScript's undefined)
Undefined == -2

FC_EXPIRY == "FC_EXPIRY"
FC_ADD == "FC_ADD"
FC_GET == "FC_GET"
FC_REMOVE == "FC_REMOVE"
FC_CLEAR == "FC_CLEAR"

\* Members every plain object inherits from Object.prototype: cacheStore is
\* a plain object literal, so cacheStore[key] finds them for these keys.
ObjectPrototypeKeys == {"toString"}

Keys == {"a", "toString"}
\* values are opaque to the cache: no code looks inside one
Values == {"v1"}
\* the expiryIn arguments of put: none, a falsy one and two positive ones
ExpiryArgs == {Undefined, 0, 1, 2}

defaultConfig == [defaultCacheExpiryIn |-> 60000, expiryCheckInterval |-> 100]

\* The config objects a caller passes to the constructor (0 stands for any
\* falsy defaultCacheExpiryIn, such as false).
ConfigArgs ==
  { <<>>,
    [defaultCacheExpiryIn |-> 0, expiryCheckInterval |-> SmallInterval],
    [defaultCacheExpiryIn |-> 1, expiryCheckInterval |-> SmallInterval] }

\* { ...this.defaultConfig, ...config }
mergeConfig(cfg) ==
  [f \in DOMAIN defaultConfig |-> IF f \in DOMAIN cfg THEN cfg[f] ELSE defaultConfig[f]]

VARIABLES
  config,            \* this.config
  cacheStore,        \* this.cacheStore: own keys -> entry
  cacheExpirer,      \* the Expirer's index: <<expiryAt, key>> -> callback
  expirerRunning,    \* the Expirer's periodic loop is alive
  instanceDisposed,  \* this.instanceDisposed
  now,               \* Date.now()
  nextTick,          \* the time at which the Expirer's next scan runs
  nextId,            \* identity of the next entry object that put creates
  events,            \* notifications emitted by the last operation, in order
  expiredCount,      \* entry identity -> number of FC_EXPIRY emitted for it
  ret,               \* what the last operation returned (or that it threw)
  lastOp,            \* the last step: the operation and its arguments
  fate,              \* entry identity -> how the entry left the Store, if it did
  seen,              \* what a subscriber finds in the instance at each notification
  subscriber         \* what the subscribed handlers do

vars == <<config, cacheStore, cacheExpirer, expirerRunning, instanceDisposed,
          now, nextTick, nextId, events, expiredCount, ret, lastOp, fate,
          seen, subscriber>>

\* ------------------------------------------------------------ JS values
truthyNumber(n) == n # 0 /\ n # Null /\ n # Undefined

undefinedValue == [undefined |-> TRUE]
builtin(key) == [builtin |-> key]
isEntry(x) == DOMAIN x = {"value", "time", "expiryAt", "id"}

\* this.cacheStore[key]: an own property, else one inherited from
\* Object.prototype, else undefined
lookup(store, key) ==
  IF key \in DOMAIN store THEN store[key]
  ELSE IF key \in ObjectPrototypeKeys THEN builtin(key)
  ELSE undefinedValue

truthy(x) == x # undefinedValue

\* (mutant) remove reads no expiryAt, so it cancels nothing
expiryAtOf_missing(target) == Undefined

\* const { expiryAt } = target
expiryAtOf(target) == IF isEntry(target) THEN target.expiryAt ELSE Undefined

\* delete this.cacheStore[key]
deleteKey(store, key) == [k \in (DOMAIN store) \ {key} |-> store[k]]

jsNull == [null |-> TRUE]
jsBool(b) == [bool |-> b]
returned(v) == [kind |-> "return", value |-> v]
thrown == [kind |-> "throw", value |-> jsNull]
\* the scan is a timer callback: it returns to no caller
timerRan == [kind |-> "timer", value |-> jsNull]
\* time passed and no code of the instance ran
nothingRan == [kind |-> "none", value |-> jsNull]

\* The instance as one record, so that a method is an operator from the
\* instance before the call to the instance after it.
this ==
  [config |-> config, cacheStore |-> cacheStore, cacheExpirer |-> cacheExpirer,
   expirerRunning |-> expirerRunning, instanceDisposed |-> instanceDisposed,
   nextId |-> nextId, events |-> <<>>, expiredCount |-> expiredCount, ret |-> ret,
   seen |-> <<>>, subscriber |-> subscriber, now |-> now, threw |-> FALSE]

\* The instance after the call becomes the next state.
becomes(m) ==
  /\ config' = m.config
  /\ cacheStore' = m.cacheStore
  /\ cacheExpirer' = m.cacheExpirer
  /\ expirerRunning' = m.expirerRunning
  /\ instanceDisposed' = m.instanceDisposed
  /\ nextId' = m.nextId
  /\ events' = m.events
  /\ expiredCount' = m.expiredCount
  /\ ret' = m.ret
  /\ seen' = m.seen
  /\ subscriber' = m.subscriber

\* ------------------------------------------------------------- emitter
\* this.emit(type, payload): subscribers observe the notification
emit(m, type, payload) ==
  [m EXCEPT !.events = Append(@, [type |-> type, payload |-> payload]),
            !.seen = Append(@, [cacheStore |-> m.cacheStore,
                                cacheExpirer |-> m.cacheExpirer]),
            !.expiredCount = IF type = FC_EXPIRY
                             THEN [@ EXCEPT ![payload.data.id] = @ + 1]
                             ELSE @]

\* ------------------------------------------------------------- Expirer
\* add(expiryAt, key, callback): insert or overwrite the registration
Expirer_add(m, expiryAt, key, callback) ==
  [m EXCEPT !.cacheExpirer =
     [p \in (DOMAIN @) \cup {<<expiryAt, key>>} |->
        IF p = <<expiryAt, key>> THEN callback ELSE @[p]]]

\* (mutant) the index never forgets a registration
Expirer_remove_noop(m, expiryAt, key) == m

\* (mutant) the index drops the whole bucket of the timestamp
Expirer_remove_bucket(m, expiryAt, key) ==
  IF expiryAt \in {Null, Undefined} THEN m
  ELSE [m EXCEPT !.cacheExpirer =
          [p \in {q \in DOMAIN @ : q[1] # expiryAt} |-> @[p]]]

\* remove(expiryAt, key): delete the registration if present; a no-op when
\* it is absent or when expiryAt is null or undefined
Expirer_remove(m, expiryAt, key) ==
  IF expiryAt \in {Null, Undefined} THEN m
  ELSE [m EXCEPT !.cacheExpirer =
          [p \in (DOMAIN @) \ {<<expiryAt, key>>} |-> @[p]]]

\* dispose(): stop the loop and release the index
Expirer_dispose(m) ==
  [m EXCEPT !.cacheExpirer = <<>>, !.expirerRunning = FALSE]

\* --------------------------------------------------------------- Store
\* (mutant) the guard never finds the instance disposed
checkIfInstanceIsDisposed_never(m) == FALSE

checkIfInstanceIsDisposed(m) == m.instanceDisposed

\* (mutant) remove raises FC_REMOVE whatever shouldEmit is
notifyRemoved_always(m, key, target, shouldEmit) ==
  emit(m, FC_REMOVE, [key |-> key, data |-> target])

\* if (shouldEmit) this.emit(Events.FC_REMOVE, { key, data: target })
notifyRemoved(m, key, target, shouldEmit) ==
  IF shouldEmit THEN emit(m, FC_REMOVE, [key |-> key, data |-> target]) ELSE m

\* remove(key, shouldEmit)
remove(m, key, shouldEmit) ==
  IF checkIfInstanceIsDisposed(m) THEN [m EXCEPT !.ret = thrown]
  ELSE
    LET target == lookup(m.cacheStore, key) IN
    IF truthy(target)
    THEN LET m1 == [m EXCEPT !.cacheStore = deleteKey(@, key)]
             m2 == Expirer_remove(m1, expiryAtOf(target), key)
             m3 == notifyRemoved(m2, key, target, shouldEmit)
         IN [m3 EXCEPT !.ret = returned(jsBool(TRUE))]
    ELSE [m EXCEPT !.ret = returned(jsBool(FALSE))]

\* (mutant) only a missing expiryIn means no expiry: 0 expires at once
computeExpiryAt_zeroExpires(expiryIn, time) ==
  IF expiryIn \in {Null, Undefined} THEN Null ELSE time + expiryIn

\* const expiryAt = expiryIn ? time + expiryIn : null
computeExpiryAt(expiryIn, time) ==
  IF truthyNumber(expiryIn) THEN time + expiryIn ELSE Null

\* (mutant) the default is read from defaultConfig, not from the merged config
defaultExpiryIn_unmerged(m, expiryArg) ==
  IF expiryArg = Undefined THEN defaultConfig.defaultCacheExpiryIn ELSE expiryArg

\* expiryIn = this.config.defaultCacheExpiryIn, when the argument is left out
defaultExpiryIn(m, expiryArg) ==
  IF expiryArg = Undefined THEN m.config.defaultCacheExpiryIn ELSE expiryArg

\* (mutant) put overwrites the slot without removing the entry it holds
removeExisting_skip(m, key) == m

\* (mutant) put removes the entry it replaces with the notification on
removeExisting_notifying(m, key) ==
  IF truthy(lookup(m.cacheStore, key)) THEN remove(m, key, TRUE) ELSE m

\* if (this.cacheStore[key]) this.remove(key)
removeExisting(m, key) ==
  IF truthy(lookup(m.cacheStore, key)) THEN remove(m, key, FALSE) ELSE m

\* (mutant) the expiry is registered at the creation time, not at expiryAt
register_atCreation(m, key, target) ==
  IF truthyNumber(target.expiryAt)
  THEN Expirer_add(m, target.time, key, [key |-> key, target |-> target])
  ELSE m

\* (mutant) put never registers the expiry
register_never(m, key, target) == m

\* if (expiryAt) this.cacheExpirer.add(expiryAt, key, onExpire): the callback
\* is the closure over key and target
register(m, key, target) ==
  IF truthyNumber(target.expiryAt)
  THEN Expirer_add(m, target.expiryAt, key, [key |-> key, target |-> target])
  ELSE m

\* put(key, value, expiryIn = this.config.defaultCacheExpiryIn)
put(m, key, value, expiryArg, time) ==
  IF checkIfInstanceIsDisposed(m) THEN [m EXCEPT !.ret = thrown]
  ELSE
    LET expiryIn == defaultExpiryIn(m, expiryArg)
        m1 == removeExisting(m, key)
        expiryAt == computeExpiryAt(expiryIn, time)
        target == [value |-> value, time |-> time, expiryAt |-> expiryAt,
                   id |-> m.nextId]
        m2 == [m1 EXCEPT
                 !.cacheStore = [k \in (DOMAIN @) \cup {key} |->
                                   IF k = key THEN target ELSE @[k]],
                 !.nextId = @ + 1]
        m3 == register(m2, key, target)
        m4 == emit(m3, FC_ADD, [key |-> key, data |-> target])
    IN [m4 EXCEPT !.ret = returned(target)]

\* (mutant) get pushes the entry's expiry back by one check interval
get_sliding(m, key) ==
  IF checkIfInstanceIsDisposed(m) THEN [m EXCEPT !.ret = thrown]
  ELSE
    LET target == lookup(m.cacheStore, key) IN
    IF truthy(target) /\ isEntry(target) /\ target.expiryAt # Null
    THEN LET later == [target EXCEPT
                         !.expiryAt = @ + m.config.expiryCheckInterval]
             m1 == Expirer_remove(m, target.expiryAt, key)
             m2 == [m1 EXCEPT !.cacheStore = [@ EXCEPT ![key] = later]]
             m3 == Expirer_add(m2, later.expiryAt, key,
                               [key |-> key, target |-> later])
         IN [emit(m3, FC_GET, [key |-> key, data |-> later])
               EXCEPT !.ret = returned(later)]
    ELSE IF truthy(target)
    THEN [emit(m, FC_GET, [key |-> key, data |-> target])
            EXCEPT !.ret = returned(target)]
    ELSE [m EXCEPT !.ret = returned(jsNull)]

\* get(key)
get(m, key) ==
  IF checkIfInstanceIsDisposed(m) THEN [m EXCEPT !.ret = thrown]
  ELSE
    LET target == lookup(m.cacheStore, key) IN
    IF truthy(target)
    THEN [emit(m, FC_GET, [key |-> key, data |-> target])
            EXCEPT !.ret = returned(target)]
    ELSE [m EXCEPT !.ret = returned(jsNull)]

\* ---------------------------------------------------------- subscribers
\* What the handlers a caller subscribed with on() do when an entry is
\* evicted: nothing; the FC_EXPIRY handler throws; the FC_EXPIRY handler puts
\* the key again; the FC_REMOVE handler puts the key again.
Subscribers == {"none", "throws", "putsOnExpiry", "putsOnRemove"}

\* the handler that puts the evicted key again (while entry objects are left)
putAgain(m, key) ==
  IF m.nextId <= MaxPuts
  THEN [put(m, key, "v1", Undefined, m.now) EXCEPT !.ret = m.ret]
  ELSE m

\* the handlers of FC_EXPIRY run inside emit, before it returns
onExpiryHandlers(m, key) ==
  IF m.subscriber = "throws" THEN [m EXCEPT !.threw = TRUE]
  ELSE IF m.subscriber = "putsOnExpiry" THEN putAgain(m, key)
  ELSE m

\* the handlers of FC_REMOVE run inside emit, the last statement of remove
\* that changes anything
onRemoveHandlers(m, key) ==
  IF m.subscriber = "putsOnRemove" THEN putAgain(m, key) ELSE m

\* (mutant) the callback raises FC_EXPIRY and forgets to remove the key
onExpire_noRemove(m, key, target) ==
  emit(m, FC_EXPIRY, [key |-> key, data |-> target])

\* (mutant) the callback removes the key with shouldEmit left at its default
onExpire_silent(m, key, target) ==
  remove(emit(m, FC_EXPIRY, [key |-> key, data |-> target]), key, FALSE)

\* the callback put registers: raise FC_EXPIRY, then remove the key; an
\* exception of a handler leaves the callback at the emit
onExpire(m, key, target) ==
  LET m1 == onExpiryHandlers(
              emit(m, FC_EXPIRY, [key |-> key, data |-> target]), key)
  IN IF m1.threw THEN m1
     ELSE onRemoveHandlers(remove(m1, key, TRUE), key)

\* (mutant) dispose removes the keys with the notification switched on
RECURSIVE removeEach_notifying(_, _)
removeEach_notifying(m, keys) ==
  IF keys = {} THEN m
  ELSE LET key == CHOOSE k \in keys : TRUE
       IN removeEach_notifying(remove(m, key, TRUE), keys \ {key})

\* Object.keys(this.cacheStore).forEach(key => this.remove(key))
RECURSIVE removeEach(_, _)
removeEach(m, keys) ==
  IF keys = {} THEN m
  ELSE LET key == CHOOSE k \in keys : TRUE
       IN removeEach(remove(m, key, FALSE), keys \ {key})

\* (mutant) dispose leaves the Expirer running
disposeExpirer_skip(m) == m

\* this.cacheExpirer.dispose()
disposeExpirer(m) == Expirer_dispose(m)

\* dispose()
dispose(m) ==
  IF checkIfInstanceIsDisposed(m) THEN [m EXCEPT !.ret = thrown]
  ELSE
    LET m1 == removeEach(m, DOMAIN m.cacheStore)
        m2 == emit(m1, FC_CLEAR, <<>>)
        m3 == disposeExpirer(m2)
    IN [m3 EXCEPT !.instanceDisposed = TRUE, !.ret = returned(jsBool(TRUE))]

\* ------------------------------------------------- the Expirer's scan
\* the registrations whose timestamp is <= the current time
due(m, time) == {p \in DOMAIN m.cacheExpirer : p[1] <= time}

\* the orders in which a set can be gone through
orders(S) ==
  {o \in [1..Cardinality(S) -> S] : \A i, j \in DOMAIN o : o[i] = o[j] => i = j}

\* fire the due registrations in the given order: each is taken out of the
\* index and its callback invoked once; a callback that throws does not stop
\* the scan
RECURSIVE fire(_, _)
fire(m, order) ==
  IF order = <<>> THEN m
  ELSE LET p == Head(order) IN
       IF p \in DOMAIN m.cacheExpirer
       THEN LET callback == m.cacheExpirer[p]
                m1 == [m EXCEPT !.cacheExpirer =
                         [q \in (DOMAIN @) \ {p} |-> @[q]]]
                m2 == onExpire(m1, callback.key, callback.target)
            IN fire([m2 EXCEPT !.threw = FALSE], Tail(order))
       ELSE fire(m, Tail(order))

\* ---------------------------------------------------------------- Init
\* the fate of an entry that has not left the Store
inStore == [how |-> "none", timed |-> FALSE]

InitInstance ==
  /\ \E cfg \in ConfigArgs : config = mergeConfig(cfg)
  /\ cacheStore = <<>>
  /\ cacheExpirer = <<>>
  /\ expirerRunning = TRUE
  /\ instanceDisposed = FALSE
  /\ now = 1
  /\ nextTick = now + config.expiryCheckInterval
  /\ nextId = 1
  /\ events = <<>>
  /\ expiredCount = [i \in 1..MaxPuts |-> 0]
  /\ ret = nothingRan
  /\ lastOp = [op |-> "new"]
  /\ fate = [i \in 1..MaxPuts |-> inStore]
  /\ seen = <<>>

\* the handlers return and call nothing
Init == InitInstance /\ subscriber = "none"

\* the handlers may throw or call put
InitSubscribers == InitInstance /\ subscriber \in Subscribers

\* -------------------------------------------------------------- actions
\* the identities of the entries the Store holds
liveIds(store) == {store[k].id : k \in DOMAIN store}

\* the entries that this step takes out of the Store leave it in this way
leftStore(how) ==
  [i \in DOMAIN fate |->
     IF i \in liveIds(cacheStore) /\ i \notin liveIds(cacheStore')
     THEN LET k == CHOOSE k \in DOMAIN cacheStore : cacheStore[k].id = i
          IN [how |-> how, timed |-> cacheStore[k].expiryAt # Null]
     ELSE fate[i]]

Put(key, value, expiryArg) ==
  /\ instanceDisposed \/ nextId <= MaxPuts
  /\ becomes(put(this, key, value, expiryArg, now))
  /\ lastOp' = [op |-> "put", key |-> key, value |-> value, expiryIn |-> expiryArg]
  /\ fate' = leftStore("replaced")
  /\ UNCHANGED <<now, nextTick>>

Get(key) ==
  /\ becomes(get(this, key))
  /\ lastOp' = [op |-> "get", key |-> key]
  /\ fate' = leftStore("none")
  /\ UNCHANGED <<now, nextTick>>

Remove(key, shouldEmit) ==
  /\ becomes(remove(this, key, shouldEmit))
  /\ lastOp' = [op |-> "remove", key |-> key, shouldEmit |-> shouldEmit]
  /\ fate' = leftStore("removed")
  /\ UNCHANGED <<now, nextTick>>

Dispose ==
  /\ becomes(dispose(this))
  /\ lastOp' = [op |-> "dispose"]
  /\ fate' = leftStore("disposed")
  /\ UNCHANGED <<now, nextTick>>

\* one run of the periodic scan
Tick ==
  /\ expirerRunning
  /\ now = nextTick
  /\ \E order \in orders(due(this, now)) :
        becomes([fire(this, order) EXCEPT !.ret = timerRan])
  /\ lastOp' = [op |-> "tick"]
  /\ fate' = leftStore("evicted")
  /\ nextTick' = now + config.expiryCheckInterval
  /\ UNCHANGED now

\* time passes; a running scan is never late
Advance ==
  /\ now < MaxTime
  /\ expirerRunning => now < nextTick
  /\ now' = now + 1
  /\ events' = <<>>
  /\ seen' = <<>>
  /\ ret' = nothingRan
  /\ lastOp' = [op |-> "advance"]
  /\ UNCHANGED <<config, cacheStore, cacheExpirer, expirerRunning,
                 instanceDisposed, nextTick, nextId, expiredCount, fate,
                 subscriber>>

Next ==
  \/ \E key \in Keys, value \in Values, expiryArg \in ExpiryArgs :
        Put(key, value, expiryArg)
  \/ \E key \in Keys : Get(key)
  \/ \E key \in Keys, shouldEmit \in BOOLEAN : Remove(key, shouldEmit)
  \/ Dispose
  \/ Tick
  \/ Advance

Spec == Init /\ [][Next]_vars

SpecSubscribers == InitSubscribers /\ [][Next]_vars

\* ------------------------------------------------------------- claims
\* the positions in a sequence of notifications that hold one of this type
ofType(evs, type) == {i \in DOMAIN evs : evs[i].type = type}
\* the registrations of the index under this key
registrationsOf(index, key) == {p \in DOMAIN index : p[2] = key}
\* the registrations of the index whose callback is for this entry
registrationsFor(index, id) == {p \in DOMAIN index : index[p].target.id = id}

\* C1: no entry stays in the Store until expiryCheckInterval past its
\* expiryAt: whenever the Store holds an entry with an expiryAt, the time
\* is less than expiryAt + expiryCheckInterval.
C1_BoundedLateExpiry ==
  \A k \in DOMAIN cacheStore :
    cacheStore[k].expiryAt # Null =>
      now < cacheStore[k].expiryAt + config.expiryCheckInterval

\* A scan has just evicted an entry as late as can be, and its key is gone.
C1_Witness ==
  /\ lastOp.op = "tick"
  /\ \E i \in ofType(events, FC_EXPIRY) :
       /\ now = events[i].payload.data.expiryAt + config.expiryCheckInterval - 1
       /\ now > events[i].payload.data.expiryAt
       /\ events[i].payload.key \notin DOMAIN cacheStore
       /\ get(this, events[i].payload.key).ret # returned(events[i].payload.data)

\* C2: a scan never evicts an entry before its expiryAt: the entries whose
\* expiryAt is later than the time of the scan are in the Store after it,
\* unchanged, and every notification the scan raises is for an entry whose
\* expiryAt is at or before the time of the scan.
C2_NoEarlyEviction ==
  [][lastOp'.op = "tick" =>
       /\ \A k \in DOMAIN cacheStore :
            (cacheStore[k].expiryAt # Null /\ now < cacheStore[k].expiryAt) =>
              /\ k \in DOMAIN cacheStore'
              /\ cacheStore'[k] = cacheStore[k]
              /\ \A i \in DOMAIN events' : events'[i].payload.key # k
       /\ \A i \in DOMAIN events' :
            /\ events'[i].payload.data.expiryAt # Null
            /\ events'[i].payload.data.expiryAt <= now]_vars

\* A scan has run, evicted an entry that was due and left one that was not.
C2_Witness ==
  /\ lastOp.op = "tick"
  /\ ofType(events, FC_EXPIRY) # {}
  /\ \E k \in DOMAIN cacheStore :
       /\ cacheStore[k].expiryAt # Null
       /\ cacheStore[k].time < now
       /\ now < cacheStore[k].expiryAt

\* C3: an entry replaced by a second put of its key is never expired and
\* keeps no registration, and a scan evicts an entry only through that
\* entry's own registration (so the replacing entry goes at its own
\* expiryAt, or never if it has none).
C3_RePutCancelsPriorDeadline ==
  \A id \in DOMAIN fate :
    /\ fate[id].how = "replaced" =>
         /\ expiredCount[id] = 0
         /\ registrationsFor(cacheExpirer, id) = {}
    /\ fate[id].how = "evicted" => fate[id].timed /\ expiredCount[id] = 1

\* An entry with a 1-or-2 TTL was replaced by one without TTL, which is still
\* there after a scan that ran after the first entry's deadline.
C3_Witness ==
  /\ config.defaultCacheExpiryIn = 1
  /\ lastOp.op = "tick"
  /\ nextId = 3
  /\ fate[1].how = "replaced" /\ fate[1].timed
  /\ \E k \in DOMAIN cacheStore :
       /\ cacheStore[k].id = 2
       /\ cacheStore[k].expiryAt = Null
       /\ now >= cacheStore[k].time + 2

\* C4: after remove(k) has removed an entry, the index holds no registration
\* for it and no FC_EXPIRY is ever raised for it; a key that has no entry has
\* no registration.
C4_RemoveCancelsExpiry ==
  /\ \A id \in DOMAIN fate :
       fate[id].how = "removed" =>
         /\ expiredCount[id] = 0
         /\ registrationsFor(cacheExpirer, id) = {}
  /\ \A k \in Keys :
       k \notin DOMAIN cacheStore => registrationsOf(cacheExpirer, k) = {}

\* remove(k) has just returned true for an entry that had a TTL.
C4_Witness ==
  /\ lastOp.op = "remove"
  /\ ret = returned(jsBool(TRUE))
  /\ lastOp.key \notin DOMAIN cacheStore
  /\ \E id \in DOMAIN fate : fate[id].how = "removed" /\ fate[id].timed
  /\ nextId = 2

\* the TTL a put call asks for: its argument, or the configured default
ttlOf(op) ==
  IF op.expiryIn = Undefined THEN config.defaultCacheExpiryIn ELSE op.expiryIn

\* C5: an entry put with a falsy TTL (0, or none with a falsy default) has
\* expiryAt = null and no registration; an entry with expiryAt = null has
\* no registration and is still in the Store, unchanged, after every step
\* that is not a remove or a put of its key, or dispose.
C5_NoTtlNeverExpires ==
  [][/\ \A k \in DOMAIN cacheStore :
          cacheStore[k].expiryAt = Null =>
            /\ registrationsOf(cacheExpirer, k) = {}
            /\ ( \/ lastOp'.op \in {"tick", "advance", "get"}
                 \/ lastOp'.op \in {"put", "remove"} /\ lastOp'.key # k ) =>
                 k \in DOMAIN cacheStore' /\ cacheStore'[k] = cacheStore[k]
     /\ (lastOp'.op = "put" /\ ~instanceDisposed /\ ttlOf(lastOp') = 0) =>
          /\ cacheStore'[lastOp'.key].expiryAt = Null
          /\ registrationsOf(cacheExpirer', lastOp'.key) = {}]_vars

\* A scan has evicted an entry and left one without expiryAt that is older
\* than the check interval.
C5_Witness ==
  /\ lastOp.op = "tick"
  /\ ofType(events, FC_EXPIRY) # {}
  /\ \E k \in DOMAIN cacheStore :
       /\ cacheStore[k].expiryAt = Null
       /\ cacheStore[k].time + config.expiryCheckInterval <= now

\* C6: put(k, v, ttl) returns an entry with value v, time = now and expiryAt
\* = now + ttl for a truthy ttl (the configured default when the argument is
\* left out) and null otherwise, whatever k held before; get(k) made right
\* after it returns that entry.
C6_PutGetRoundTrip ==
  [][/\ (lastOp'.op = "put" /\ ~instanceDisposed) =>
          /\ ret'.kind = "return"
          /\ ret'.value.value = lastOp'.value
          /\ ret'.value.time = now
          /\ ret'.value.expiryAt =
               (IF ttlOf(lastOp') # 0 THEN now + ttlOf(lastOp') ELSE Null)
          /\ get(this', lastOp'.key).ret = ret'
     /\ (lastOp'.op = "get" /\ lastOp.op = "put" /\ lastOp'.key = lastOp.key) =>
          ret' = ret]_vars

\* get has just returned the entry that a put, which replaced another entry
\* of the key, returned.
C6_Witness ==
  /\ lastOp.op = "get"
  /\ ret.kind = "return"
  /\ isEntry(ret.value)
  /\ ret.value.id = 2
  /\ ret.value.time = now
  /\ fate[1].how = "replaced"

\* the keys whose entry a step takes out of the Store
leaving == {k \in DOMAIN cacheStore :
              k \notin DOMAIN cacheStore' \/ cacheStore'[k] # cacheStore[k]}

\* C7: a scan raises, for each entry it evicts, FC_EXPIRY directly followed
\* by FC_REMOVE, both with the key and the entry, and nothing else; no entry
\* is ever the subject of two FC_EXPIRY.
C7_EvictionNotifications ==
  [][/\ lastOp'.op = "tick" =>
          /\ Len(events') = 2 * Cardinality(leaving)
          /\ \A k \in leaving :
               \E i \in DOMAIN events' :
                 /\ i + 1 \in DOMAIN events'
                 /\ events'[i] = [type |-> FC_EXPIRY,
                                  payload |-> [key |-> k, data |-> cacheStore[k]]]
                 /\ events'[i + 1] = [type |-> FC_REMOVE,
                                      payload |-> [key |-> k, data |-> cacheStore[k]]]
     /\ \A id \in DOMAIN expiredCount : expiredCount'[id] <= 1]_vars

\* One scan has evicted two entries.
C7_Witness ==
  /\ lastOp.op = "tick"
  /\ Len(events) = 4
  /\ events[1].type = FC_EXPIRY /\ events[2].type = FC_REMOVE
  /\ events[3].type = FC_EXPIRY /\ events[4].type = FC_REMOVE
  /\ events[1].payload.key # events[3].payload.key
  /\ cacheStore = <<>>

\* C8: remove(k, true) of a key that has an entry raises one FC_REMOVE with
\* the key and the entry, and nothing else; remove(k, false) raises nothing.
C8_RemoveNotification ==
  [][(lastOp'.op = "remove" /\ ~instanceDisposed) =>
       /\ (lastOp'.key \in DOMAIN cacheStore /\ lastOp'.shouldEmit) =>
            events' = << [type |-> FC_REMOVE,
                          payload |-> [key |-> lastOp'.key,
                                       data |-> cacheStore[lastOp'.key]]] >>
       /\ ~lastOp'.shouldEmit => events' = <<>>]_vars

\* remove(k, true) has just removed an entry and raised FC_REMOVE for it.
C8_Witness ==
  /\ lastOp.op = "remove"
  /\ lastOp.shouldEmit
  /\ Len(events) = 1
  /\ events[1].type = FC_REMOVE
  /\ isEntry(events[1].payload.data)
  /\ fate[events[1].payload.data.id].how = "removed"

\* C9: remove(k, notify) of a key that has an entry returns true, and the
\* same call made again returns false, changes neither the Store nor the
\* index, and the two calls together raise at most one FC_REMOVE.
C9_RemoveTwice ==
  [][(lastOp'.op = "remove" /\ ~instanceDisposed
        /\ lastOp'.key \in DOMAIN cacheStore) =>
       LET again == remove(this', lastOp'.key, lastOp'.shouldEmit) IN
       /\ ret' = returned(jsBool(TRUE))
       /\ again.ret = returned(jsBool(FALSE))
       /\ again.cacheStore = cacheStore'
       /\ again.cacheExpirer = cacheExpirer'
       /\ Len(events') + Len(again.events) <= 1]_vars

\* C10: for a key that has no entry, get returns null and remove returns
\* false; neither throws, raises a notification or changes the Store or the
\* index.
C10_AbsentKey ==
  [][(~instanceDisposed /\ lastOp'.op \in {"get", "remove"}
        /\ lastOp'.key \notin DOMAIN cacheStore) =>
       /\ ret' = (IF lastOp'.op = "get" THEN returned(jsNull)
                                       ELSE returned(jsBool(FALSE)))
       /\ events' = <<>>
       /\ UNCHANGED <<cacheStore, cacheExpirer>>]_vars

\* C11: dispose leaves the Store and the index empty and raises FC_CLEAR
\* once, when the Store is already empty, and nothing else: no FC_REMOVE and
\* no FC_EXPIRY for the keys it removes.
C11_DisposeClears ==
  [][(lastOp'.op = "dispose" /\ ~instanceDisposed) =>
       /\ cacheStore' = <<>>
       /\ cacheExpirer' = <<>>
       /\ events' = << [type |-> FC_CLEAR, payload |-> <<>>] >>
       /\ seen'[1].cacheStore = <<>>
       /\ expiredCount' = expiredCount
       /\ ret' = returned(jsBool(TRUE))]_vars

\* dispose has just removed two entries, one of them with a TTL.
C11_Witness ==
  /\ lastOp.op = "dispose"
  /\ ret = returned(jsBool(TRUE))
  /\ fate[1].how = "disposed" /\ fate[2].how = "disposed"
  /\ fate[1].timed

\* C12: on a disposed instance put, get, remove and dispose throw, change
\* neither the Store nor the index and raise nothing; a disposed instance
\* stays disposed.
C12_UseAfterDispose ==
  [][instanceDisposed =>
       /\ instanceDisposed'
       /\ lastOp'.op \in {"put", "get", "remove", "dispose"} =>
            /\ ret' = thrown
            /\ events' = <<>>
            /\ UNCHANGED <<cacheStore, cacheExpirer, expirerRunning, nextId>>]_vars

\* put has just thrown on a disposed instance.
C12_Witness ==
  /\ instanceDisposed
  /\ lastOp.op = "put"
  /\ ret = thrown

\* C13: on a disposed instance no scan runs and no FC_EXPIRY or FC_REMOVE is
\* raised, also for entries that dispose removed before their deadline.
C13_NoExpiryAfterDispose ==
  [][instanceDisposed =>
       /\ lastOp'.op # "tick"
       /\ ~expirerRunning'
       /\ ofType(events', FC_EXPIRY) = {} /\ ofType(events', FC_REMOVE) = {}
       /\ expiredCount' = expiredCount]_vars

\* dispose removed an entry with a TTL that was never expired, and the time
\* of the scan that would have followed has passed.
C13_Witness ==
  /\ instanceDisposed
  /\ now > nextTick
  /\ \E id \in DOMAIN fate :
       fate[id].how = "disposed" /\ fate[id].timed /\ expiredCount[id] = 0

\* C14: get changes neither the Store nor the index (nor the time of the
\* next scan): the entry keeps its expiryAt and its registration.
C14_GetKeepsExpiry ==
  [][lastOp'.op = "get" =>
       UNCHANGED <<cacheStore, cacheExpirer, nextTick, expirerRunning,
                   expiredCount>>]_vars

\* get has just returned an entry with a TTL, put at an earlier time, which
\* is still registered at its expiryAt.
C14_Witness ==
  /\ lastOp.op = "get"
  /\ ret.kind = "return"
  /\ isEntry(ret.value)
  /\ ret.value.expiryAt # Null
  /\ ret.value.time < now
  /\ <<ret.value.expiryAt, lastOp.key>> \in DOMAIN cacheExpirer

\* C15: every registration (timestamp, key) of the index is for the entry
\* the Store holds under that key, whose expiryAt is that timestamp; so no
\* key has two registrations.
C15_NoOrphanedRegistrations ==
  /\ \A p \in DOMAIN cacheExpirer :
       /\ p[2] \in DOMAIN cacheStore
       /\ cacheStore[p[2]].expiryAt = p[1]
       /\ cacheExpirer[p] = [key |-> p[2], target |-> cacheStore[p[2]]]
  /\ \A k \in Keys : Cardinality(registrationsOf(cacheExpirer, k)) <= 1

\* After a put that replaced an entry with a TTL, a remove or a scan, the
\* index holds one registration.
C15_Witness ==
  /\ lastOp.op \in {"remove", "tick"}
  /\ fate[1].how = "replaced" /\ fate[1].timed
  /\ Cardinality(DOMAIN cacheExpirer) = 1

\* C16: every entry of the Store that has an expiryAt has exactly one
\* registration, at (expiryAt, key), with the callback for that entry.
C16_EveryExpiringEntryScheduled ==
  \A k \in DOMAIN cacheStore :
    cacheStore[k].expiryAt # Null =>
      /\ registrationsOf(cacheExpirer, k) = {<<cacheStore[k].expiryAt, k>>}
      /\ cacheExpirer[<<cacheStore[k].expiryAt, k>>].target = cacheStore[k]

\* After a scan the Store holds two entries with a TTL, both registered.
C16_Witness ==
  /\ lastOp.op = "tick"
  /\ Cardinality(DOMAIN cacheStore) = 2
  /\ \A k \in DOMAIN cacheStore : cacheStore[k].expiryAt # Null
  /\ Cardinality(DOMAIN cacheExpirer) = 2

\* C17: when a subscriber of FC_EXPIRY throws during an eviction, the
\* registration of the evicted entry is still taken out of the index and the
\* entry is still taken out of the Store.
C17_ThrowingSubscriber ==
  [][(lastOp'.op = "tick" /\ subscriber = "throws") =>
       \A p \in due(this, now) :
         /\ p \notin DOMAIN cacheExpirer'
         /\ cacheExpirer[p].target.id \notin liveIds(cacheStore')]_vars

\* C18: a put that succeeds raises exactly one notification, FC_ADD with the
\* key and the new entry (so no FC_REMOVE or FC_EXPIRY for an entry it
\* replaces), and raises it when the Store holds the new entry and, if the
\* entry has an expiryAt, the index holds its registration.
C18_PutAnnouncesOnce ==
  [][(lastOp'.op = "put" /\ ~instanceDisposed) =>
       LET key == lastOp'.key
           target == ret'.value
       IN /\ ret'.kind = "return"
          /\ events' = << [type |-> FC_ADD,
                           payload |-> [key |-> key, data |-> target]] >>
          /\ expiredCount' = expiredCount
          /\ key \in DOMAIN seen'[1].cacheStore
          /\ seen'[1].cacheStore[key] = target
          /\ target.expiryAt # Null =>
               /\ <<target.expiryAt, key>> \in DOMAIN seen'[1].cacheExpirer
               /\ seen'[1].cacheExpirer[<<target.expiryAt, key>>].target = target
          /\ registrationsOf(seen'[1].cacheExpirer, key) \subseteq
               {<<target.expiryAt, key>>}]_vars

\* put has just replaced an entry that had a TTL, by an entry with a TTL.
C18_Witness ==
  /\ lastOp.op = "put"
  /\ fate[1].how = "replaced" /\ fate[1].timed
  /\ Len(events) = 1
  /\ ret.kind = "return" /\ ret.value.id = 2 /\ ret.value.expiryAt # Null

\* the keys other than k1 whose entry has the expiryAt of k1's entry
sharingDeadline(k1) ==
  {k2 \in DOMAIN cacheStore \ {k1} :
     /\ k1 \in DOMAIN cacheStore
     /\ cacheStore[k1].expiryAt # Null
     /\ cacheStore[k2].expiryAt = cacheStore[k1].expiryAt}

C20_EvictionRemovesOwnEntry ==
  [][(lastOp'.op = "tick" /\ subscriber \in {"putsOnExpiry", "putsOnRemove"}) =>
       /\ \A i \in ofType(events', FC_ADD) :
            LET key == events'[i].payload.key
                target == events'[i].payload.data
            IN /\ key \in DOMAIN cacheStore'
               /\ cacheStore'[key] = target
               /\ target.expiryAt # Null =>
                    <<target.expiryAt, key>> \in DOMAIN cacheExpirer'
       /\ \A i \in ofType(events', FC_REMOVE) :
            \E j \in ofType(events', FC_EXPIRY) :
              j < i /\ events'[j].payload = events'[i].payload]_vars
====
